---- MODULE Spec2Model ----
(***************************************************************************)
(* PPM (P6) to PGM (P5) converter: the per-stage algorithms of zad1.c and  *)
(* of its three sibling programs (src/unnamed/part_000 .. part_002).       *)
(*                                                                         *)
(* Numbers.  A C double is modelled by the exact rational it approximates, *)
(* kept as a record [num, den] with den > 0; den = 0 stands for the IEEE   *)
(* specials a division by zero produces (num > 0: +inf, num < 0: -inf,     *)
(* num = 0: NaN).  A conversion double -> unsigned char truncates toward   *)
(* zero, as C does; the conversion of a NaN is undefined behaviour and is  *)
(* a nondeterministic choice among all bytes.  Vector lanes of 16 bits     *)
(* wrap modulo 2^16.  Storage returned by malloc and never written holds   *)
(* the value Indeterminate.                                                *)
(*                                                                         *)
(* main.  SpecMain runs main of each of the four programs statement by     *)
(* statement on a command line and a source file: fopen and malloc may     *)
(* fail, fprintf and fwrite may transfer less than asked.  An int is 32    *)
(* bits wide and its products wrap.  A call with undefined behaviour       *)
(* (fclose of a null or closed stream, free of a freed block) either kills *)
(* the process with a signal or lets it run on; a loop that walks width x  *)
(* height pixels over blocks of fewer bytes kills it.  What a stream has   *)
(* taken reaches the file at fclose or exit.                               *)
(***************************************************************************)
EXTENDS Integers, Sequences, FiniteSets, TLC

VARIABLES
    op,             \* the stage that ran last ("decoded", "gray": none yet)
    runs,           \* how many times an in-place stage has been applied
    width, height,  \* raster dimensions; size = width * height
    pixels,         \* Pixel* pixels: the decoded colour raster
    grayscale,      \* unsigned char* grayscale
    new_grayscale,  \* unsigned char* new_grayscale: the filter's output
    prev,           \* history: grayscale as it was before the last stage ran
    extreme,        \* history: the first stage input held only 0 and 255
    th,             \* otsu_treshold's local th
    gamma,          \* gamma_transform's parameter
    kernel,         \* the 3x3 kernel (or filter) in use
    reads,          \* history: flat indices the filter read, per output pixel
    variant,        \* which program's main is running ("none": a stage alone)
    input,          \* argc, whether the two files can be opened, and what is
                    \* left to read of the source file
    src, tgt,       \* FILE* src, FILE* tgt, and every fclose made on them
    heap,           \* the three malloc'ed blocks, and every free made on them
    dest,           \* what the destination stream and file have received
    status,         \* "running", or how the process ended
    given           \* history: input as it was when the process started

run_vars == <<variant, input, src, tgt, heap, dest, status, given>>

vars == <<op, runs, width, height, pixels, grayscale, new_grayscale, prev,
          extreme, th, gamma, kernel, reads, variant, input, src, tgt, heap,
          dest, status, given>>

(* ----------------------------- constants ------------------------------ *)

MAXGRAY == 255

MAXSIZE == MAXGRAY + 1

KSIZE == 3

VECSIZE == 8

Byte == 0 .. MAXGRAY

\* malloc'ed storage that no statement has written yet
Indeterminate == -1

(* ------------------------------ bounds -------------------------------- *)

\* red and green channels are sampled every ChanStep levels (plus 255)
ChanStep == 15

\* blue channel of pixel 0 is sampled every BlueStep levels; pixel k adds
\* k mod VECSIZE, so pixel VECSIZE + k repeats the colour of pixel k
BlueStep == 8

\* colour rasters hold 1 .. VECSIZE + MaxTail pixels
MaxTail == 2

\* gray rasters given to the histogram stages hold 1 .. MaxPixels pixels
MaxPixels == 4

\* an in-place stage is applied at most MaxRuns times in a row
MaxRuns == 2

\* rasters given to the spatial filters are up to MaxDim x MaxDim
MaxDim == 3

(* ------------------------------ helpers ------------------------------- *)

Rat(n, d) == [num |-> n, den |-> d]

Abs(x) == IF x < 0 THEN -x ELSE x

\* int is 32 bits wide; Half = 2^16
Half == 65536

\* a * b as an int product that wraps modulo 2^32, for 0 <= a, b <= 2^16
\* whose low halves have a product below 2^31
int_mul(a, b) ==
    LET ah  == a \div Half
        al  == a % Half
        bh  == b \div Half
        bl  == b % Half
        low == al * bl
        hi  == (ah * bl + al * bh + (low \div Half)) % Half
    IN  IF hi >= Half \div 2 THEN (hi - Half) * Half + (low % Half)
        ELSE hi * Half + (low % Half)

\* int size = width * height
size == int_mul(width, height)

Range(f) == {f[k] : k \in DOMAIN f}

NoBuffer == <<>>

\* a stage checked on its own: no main is running
NoRun ==
    /\ variant = "none"
    /\ input = <<>>
    /\ src = <<>>
    /\ tgt = <<>>
    /\ heap = <<>>
    /\ dest = <<>>
    /\ status = "none"
    /\ given = <<>>

(* ----------------------------- round_clamp ---------------------------- *)

\* round-to-nearest variant: what the unused local xm = round(x) would give
round_clamp_nearest(x) ==
    IF x.num > 255 * x.den THEN 255
    ELSE IF x.num < 0 THEN 0
    ELSE (2 * x.num + x.den) \div (2 * x.den)

\* zad1.c round_clamp for a finite x (den > 0): xm is computed and dropped,
\* the return value is the C conversion (unsigned char)x, a truncation
round_clamp(x) ==
    IF x.num > 255 * x.den THEN 255
    ELSE IF x.num < 0 THEN 0
    ELSE x.num \div x.den

(* ------------------------- Luminance Converter ------------------------ *)

\* wr * r + wg * g + wb * b with wr, wg, wb = 0.299, 0.587, 0.114
wsum(pixel) == Rat(299 * pixel.r + 587 * pixel.g + 114 * pixel.b, 1000)

\* zad1.c and part_000: return round_clamp(wsum)
ppm_to_pgm_weighted(pixel) == round_clamp(wsum(pixel))

\* part_001 and part_002: return (unsigned char) wsum  (wsum is in [0,255])
ppm_to_pgm_weighted_cast(pixel) == wsum(pixel).num \div wsum(pixel).den

\* NEON lane arithmetic
vmull_u8(a, b) == (a * b) % 65536

vaddq_u16(a, b) == (a + b) % 65536

vshrn_n_u16(a, n) == (a \div (2 ^ n)) % 256

\* the lane arithmetic with vmul_u8 (8-bit products) in place of vmull_u8
neon_lane_vmul_u8(pixel) ==
    LET r == (pixel.r * 77) % 256
        g == (pixel.g * 150) % 256
        b == (pixel.b * 29) % 256
        sum == vaddq_u16(vaddq_u16(r, g), b)
    IN  vshrn_n_u16(sum, 8)

\* one lane of the 8-lane loop body of neon_weighted_grayscale
neon_lane(pixel) ==
    LET r == vmull_u8(pixel.r, 77)
        g == vmull_u8(pixel.g, 150)
        b == vmull_u8(pixel.b, 29)
        sum == vaddq_u16(vaddq_u16(r, g), b)
    IN  vshrn_n_u16(sum, 8)

\* first index the 8-lane loop does not handle:
\* for (i = 0; i <= size - VECSIZE; i += VECSIZE)
RECURSIVE neon_loop_end(_, _)
neon_loop_end(i, n) ==
    IF i <= n - VECSIZE THEN neon_loop_end(i + VECSIZE, n) ELSE i

\* neon_weighted_grayscale of part_000 (scalar fallback through round_clamp)
neon_weighted_grayscale(n, px) ==
    [k \in 0 .. n - 1 |->
        IF k < neon_loop_end(0, n) THEN neon_lane(px[k])
        ELSE ppm_to_pgm_weighted(px[k])]

\* neon_weighted_grayscale of part_002 (scalar fallback through the cast)
neon_weighted_grayscale_cast(n, px) ==
    [k \in 0 .. n - 1 |->
        IF k < neon_loop_end(0, n) THEN neon_lane(px[k])
        ELSE ppm_to_pgm_weighted_cast(px[k])]

Levels(step) == {k * step : k \in 0 .. (MAXGRAY \div step)} \cup {MAXGRAY}

\* a decoded colour raster of w*h pixels: red and green fixed, blue a ramp
\* of period VECSIZE
InitLum ==
    /\ op = "decoded"
    /\ runs = 0
    /\ height = 1
    /\ width \in 1 .. VECSIZE + MaxTail
    /\ \E R \in Levels(ChanStep), G \in Levels(ChanStep), B \in Levels(BlueStep) :
          pixels = [k \in 0 .. width - 1 |->
                       [r |-> R, g |-> G, b |-> (B + (k % VECSIZE)) % MAXSIZE]]
    /\ grayscale = NoBuffer
    /\ new_grayscale = NoBuffer
    /\ prev = NoBuffer
    /\ extreme = FALSE
    /\ th = 0
    /\ gamma = 0
    /\ kernel = "none"
    /\ reads = NoBuffer
    /\ NoRun

\* zad1.c main: for (i < size) grayscale[i] = ppm_to_pgm_weighted(&pixels[i])
Zad1Luminance ==
    /\ op = "decoded"
    /\ grayscale' = [k \in 0 .. size - 1 |-> ppm_to_pgm_weighted(pixels[k])]
    /\ op' = "ppm_to_pgm_weighted"
    /\ UNCHANGED <<runs, width, height, pixels, new_grayscale, prev, extreme,
                   th, gamma, kernel, reads>>
    /\ UNCHANGED run_vars

\* part_001 main: the j, i double loop over grayscale[j * width + i]
Part001Luminance ==
    /\ op = "decoded"
    /\ grayscale' = [k \in {j * width + i : j \in 0 .. height - 1,
                                             i \in 0 .. width - 1} |->
                        ppm_to_pgm_weighted_cast(pixels[k])]
    /\ op' = "ppm_to_pgm_weighted_cast"
    /\ UNCHANGED <<runs, width, height, pixels, new_grayscale, prev, extreme,
                   th, gamma, kernel, reads>>
    /\ UNCHANGED run_vars

\* part_000 main: neon_weighted_grayscale(size, pixels, grayscale)
Part000Luminance ==
    /\ op = "decoded"
    /\ grayscale' = neon_weighted_grayscale(size, pixels)
    /\ op' = "neon_weighted_grayscale"
    /\ UNCHANGED <<runs, width, height, pixels, new_grayscale, prev, extreme,
                   th, gamma, kernel, reads>>
    /\ UNCHANGED run_vars

\* part_002 main: neon_weighted_grayscale(size, pixels, grayscale)
Part002Luminance ==
    /\ op = "decoded"
    /\ grayscale' = neon_weighted_grayscale_cast(size, pixels)
    /\ op' = "neon_weighted_grayscale_cast"
    /\ UNCHANGED <<runs, width, height, pixels, new_grayscale, prev, extreme,
                   th, gamma, kernel, reads>>
    /\ UNCHANGED run_vars

NextLum ==
    \/ Zad1Luminance
    \/ Part001Luminance
    \/ Part000Luminance
    \/ Part002Luminance

SpecLum == InitLum /\ [][NextLum]_vars

ScalarLuminanceDone == op \in {"ppm_to_pgm_weighted", "ppm_to_pgm_weighted_cast"}

NeonLuminanceDone ==
    op \in {"neon_weighted_grayscale", "neon_weighted_grayscale_cast"}

\* 0.299 R + 0.587 G + 0.114 B rounded to the nearest integer
LuminanceNearest(pixel) ==
    (299 * pixel.r + 587 * pixel.g + 114 * pixel.b + 500) \div 1000

\* C1: after the scalar Luminance Converter every output intensity equals
\* 0.299 R + 0.587 G + 0.114 B of the pixel at the same index rounded to the
\* NEAREST integer, i.e. (299 R + 587 G + 114 B + 500) div 1000.
C1_LuminanceRoundsToNearest ==
    ScalarLuminanceDone =>
        \A k \in DOMAIN grayscale : grayscale[k] = LuminanceNearest(pixels[k])

\* C7: every pixel the 8-lane loop handled holds (77 R + 150 G + 29 B) >> 8
\* with no 16-bit wrap-around, within 1 of the luminance rounded to nearest
\* and within 1 of what the scalar fallback returns for the same colour
\* (also where the fallback's double sum falls just short of an integer q,
\* so that it returns q - 1); a pixel of the same colour handled by the
\* scalar remainder loop of the same run differs by at most 1.
C7_FixedPointWithinOne ==
    NeonLuminanceDone =>
        \A k \in 0 .. neon_loop_end(0, size) - 1 :
            LET p == pixels[k]
                w == wsum(p)
            IN  /\ grayscale[k] = (77 * p.r + 150 * p.g + 29 * p.b) \div 256
                /\ Abs(grayscale[k] - LuminanceNearest(p)) <= 1
                /\ Abs(grayscale[k] - ppm_to_pgm_weighted(p)) <= 1
                /\ w.num % w.den = 0 /\ w.num > 0 =>
                       Abs(grayscale[k] - (w.num \div w.den - 1)) <= 1
                /\ \A m \in neon_loop_end(0, size) .. size - 1 :
                       pixels[m] = p => Abs(grayscale[k] - grayscale[m]) <= 1

\* C7 witness: a run with both loops in which a vector pixel and a scalar
\* pixel of the same colour differ by exactly 1
C7_Witness ==
    /\ NeonLuminanceDone
    /\ \E k \in 0 .. neon_loop_end(0, size) - 1 :
          \E m \in neon_loop_end(0, size) .. size - 1 :
              /\ pixels[m] = pixels[k]
              /\ Abs(grayscale[k] - grayscale[m]) = 1

(* ------------------------ Histogram Equalizer ------------------------ *)

IsNaN(x) == x.den = 0 /\ x.num = 0

\* int hist[MAXSIZE]: hist[v] is the number of pixels of intensity v
hist(g, v) == Cardinality({k \in DOMAIN g : g[k] = v})

Min(S) == CHOOSE x \in S : \A y \in S : x <= y

Max(S) == CHOOSE x \in S : \A y \in S : x >= y

\* gmin: the first i with hist[i] > 0, the smallest intensity present
hist_gmin(g) == Min(Range(g))

\* int histc[MAXSIZE]: histc[0] = 0; histc[i] = histc[i-1] + hist[i], that
\* is hist[1] + ... + hist[i]: the pixels of intensity 1 .. i
histc(g, i) == Cardinality({k \in DOMAIN g : 1 <= g[k] /\ g[k] <= i})

\* double val = MAXGRAY * ((double)(histc[i] - hmin) / (size - hmin))
hist_val(n, g, i) ==
    LET hmin == histc(g, hist_gmin(g))
    IN  Rat(MAXGRAY * (histc(g, i) - hmin), n - hmin)

\* unsigned char tvals[MAXSIZE] = {0}; tvals[i] = round_clamp(val), i >= 1.
\* round_clamp of a NaN passes both comparisons and converts the NaN to
\* unsigned char: undefined, nan_byte is the byte the build produces.
hist_tvals(n, g, i, nan_byte) ==
    IF i = 0 THEN 0
    ELSE IF IsNaN(hist_val(n, g, i)) THEN nan_byte
    ELSE round_clamp(hist_val(n, g, i))

\* the rewrite loop reads a tvals entry that came from a NaN
hist_reads_nan(n, g) ==
    \E k \in DOMAIN g : g[k] # 0 /\ IsNaN(hist_val(n, g, g[k]))

\* void histogram_transform(int size, unsigned char* grayscale)
histogram_transform(n, g, nan_byte) ==
    [k \in 0 .. n - 1 |-> hist_tvals(n, g, g[k], nan_byte)]

HistPalette == {0, 1, 100, 254, 255}

IsConstant(g) == \A k, m \in DOMAIN g : g[k] = g[m]

\* a gray raster of 1 .. MaxPixels pixels: any constant raster, or any
\* raster over HistPalette
InitHist ==
    /\ op = "gray"
    /\ runs = 0
    /\ height = 1
    /\ width \in 1 .. MaxPixels
    /\ pixels = NoBuffer
    /\ \/ \E v \in Byte : grayscale = [k \in 0 .. width - 1 |-> v]
       \/ grayscale \in [0 .. width - 1 -> HistPalette]
    /\ new_grayscale = NoBuffer
    /\ prev = NoBuffer
    /\ extreme = (Range(grayscale) \subseteq {0, MAXGRAY})
    /\ th = 0
    /\ gamma = 0
    /\ kernel = "none"
    /\ reads = NoBuffer
    /\ NoRun

\* zad1.c main: histogram_transform(size, grayscale).  The stage is applied
\* again (up to MaxRuns times) to the rasters that started from 0 and 255
\* only, the ones whose repeated equalization is of interest.
HistogramTransform ==
    /\ op \in {"gray", "histogram_transform"}
    /\ runs < (IF extreme THEN MaxRuns ELSE 1)
    /\ \E nan_byte \in (IF hist_reads_nan(size, grayscale) THEN Byte ELSE {0}) :
          grayscale' = histogram_transform(size, grayscale, nan_byte)
    /\ prev' = grayscale
    /\ op' = "histogram_transform"
    /\ runs' = runs + 1
    /\ UNCHANGED <<width, height, pixels, new_grayscale, extreme, th, gamma,
                   kernel, reads>>
    /\ UNCHANGED run_vars

NextHist == HistogramTransform

SpecHist == InitHist /\ [][NextHist]_vars

HistogramDoneOnce == op = "histogram_transform" /\ runs = 1

\* C2: the Histogram Equalizer returns a raster of one constant intensity
\* unchanged (the zero divisor N - hmin is detected, nothing is divided by
\* zero and converted).
C2_ConstantRasterUnchanged ==
    HistogramDoneOnce /\ IsConstant(prev) => grayscale = prev

\* cum[i] = hist[0] + ... + hist[i]
cum(g, i) == Cardinality({k \in DOMAIN g : g[k] <= i})

\* T[0] = 0, T[i] = round_clamp(255 (cum[i] - hmin) / (N - hmin)), rounding
\* to nearest, with hmin = cum[gmin]
SpecT(n, g, i) ==
    LET hmin == cum(g, hist_gmin(g))
    IN  IF i = 0 THEN 0
        ELSE round_clamp_nearest(Rat(MAXGRAY * (cum(g, i) - hmin), n - hmin))

\* C3: on a non-constant raster the Histogram Equalizer applies the LUT
\* T[0] = 0, T[i] = round_clamp(255 (cum[i] - hmin) / (N - hmin)) built on the
\* cumulative histogram that includes hist[0]; the smallest present
\* intensity maps to 0 and the largest present intensity maps to 255.
C3_EqualizerLut ==
    HistogramDoneOnce /\ ~IsConstant(prev) =>
        /\ \A k \in DOMAIN prev : grayscale[k] = SpecT(size, prev, prev[k])
        /\ \A k \in DOMAIN prev :
              /\ prev[k] = Min(Range(prev)) => grayscale[k] = 0
              /\ prev[k] = Max(Range(prev)) => grayscale[k] = MAXGRAY

Gammas == {1, 2, 3}

\* the LUT entry with the exponent fixed at 2.0 whatever gamma is passed
gamma_lookup_fixed_exponent(i, gm) == round_clamp(Rat(i ^ 2, MAXGRAY))

\* lookup[i] = round_clamp(MAXGRAY * pow((double) i / MAXGRAY, gamma)):
\* 255 (i/255)^gm = i^gm / 255^(gm-1)
gamma_lookup(i, gm) == round_clamp(Rat(i ^ gm, MAXGRAY ^ (gm - 1)))

\* void gamma_transform(int size, unsigned char* grayscale, double gamma)
gamma_transform(n, g, gm) == [k \in 0 .. n - 1 |-> gamma_lookup(g[k], gm)]

GammaStrides == {0, 1, 85}

\* a gray raster of 1 .. MaxPixels pixels: pixel k holds v + k * d mod 256
InitGamma ==
    /\ op = "gray"
    /\ runs = 0
    /\ height = 1
    /\ width \in 1 .. MaxPixels
    /\ pixels = NoBuffer
    /\ \E v \in Byte, d \in GammaStrides :
          grayscale = [k \in 0 .. width - 1 |-> (v + k * d) % MAXSIZE]
    /\ new_grayscale = NoBuffer
    /\ prev = NoBuffer
    /\ extreme = FALSE
    /\ th = 0
    /\ gamma = 0
    /\ kernel = "none"
    /\ reads = NoBuffer
    /\ NoRun

\* zad1.c main: gamma_transform(size, grayscale, 2.0), for any gamma of Gammas
GammaTransform ==
    /\ op = "gray"
    /\ \E gm \in Gammas :
          /\ gamma' = gm
          /\ grayscale' = gamma_transform(size, grayscale, gm)
    /\ prev' = grayscale
    /\ op' = "gamma_transform"
    /\ runs' = runs + 1
    /\ UNCHANGED <<width, height, pixels, new_grayscale, extreme, th, kernel,
                   reads>>
    /\ UNCHANGED run_vars

NextGamma == GammaTransform

SpecGamma == InitGamma /\ [][NextGamma]_vars

\* C8: the Gamma Corrector with gamma = 1.0 leaves every intensity as it is;
\* with gamma > 1 no intensity grows, 0 stays 0 and 255 stays 255, and with
\* the reference gamma 2.0 intensity i becomes i * i / 255 (truncated).
C8_GammaIdentityAndDarkening ==
    op = "gamma_transform" =>
        \A k \in DOMAIN prev :
            /\ gamma = 1 => grayscale[k] = prev[k]
            /\ gamma > 1 =>
                  /\ grayscale[k] <= prev[k]
                  /\ prev[k] = 0 => grayscale[k] = 0
                  /\ prev[k] = MAXGRAY => grayscale[k] = MAXGRAY
            /\ gamma = 2 => grayscale[k] = (prev[k] * prev[k]) \div MAXGRAY

\* C8 witness: gamma 2.0 applied to a raster with a pixel of 255, which stays
\* 255, and a pixel that becomes strictly darker without reaching 0
C8_Witness ==
    /\ op = "gamma_transform"
    /\ gamma = 2
    /\ \E k \in DOMAIN prev : prev[k] = MAXGRAY /\ grayscale[k] = MAXGRAY
    /\ \E m \in DOMAIN prev : 0 < grayscale[m] /\ grayscale[m] < prev[m]

(* -------------------------- Convolution Filter ------------------------ *)

\* double kernel[KSIZE * KSIZE], row-major, as numerators over one denominator
Kernels ==
    [ gaussian |-> [num |-> <<1, 2, 1, 2, 4, 2, 1, 2, 1>>, den |-> 16],
      identity |-> [num |-> <<0, 0, 0, 0, 1, 0, 0, 0, 0>>, den |-> 1],
      mean     |-> [num |-> <<1, 1, 1, 1, 1, 1, 1, 1, 1>>, den |-> 9] ]

KernelNames == {"gaussian", "identity", "mean"}

\* an array element; a subscript outside the array reads storage that is
\* not the array's
Load(buf, idx) == IF idx \in DOMAIN buf THEN buf[idx] ELSE Indeterminate

\* get_safe_gval's subscript with the upper tests written > instead of >=
safe_index_off_by_one(w, h, i, j) ==
    LET ii == IF i > w THEN w - 1 ELSE IF i < 0 THEN 0 ELSE i
        jj == IF j > h THEN h - 1 ELSE IF j < 0 THEN 0 ELSE j
    IN  jj * w + ii

\* get_safe_gval: the subscript jj * width + ii it reads grayscale at
safe_index(w, h, i, j) ==
    LET ii == IF i >= w THEN w - 1 ELSE IF i < 0 THEN 0 ELSE i
        jj == IF j >= h THEN h - 1 ELSE IF j < 0 THEN 0 ELSE j
    IN  jj * w + ii

\* the nine subscripts convolve_3x3 reads for output pixel (i, j), in the
\* order of its jj, ii loops: ni = i + ii - 1, nj = j + jj - 1
conv_reads(w, h, i, j) ==
    [n \in 1 .. KSIZE * KSIZE |->
        safe_index(w, h, i + ((n - 1) % KSIZE) - 1, j + ((n - 1) \div KSIZE) - 1)]

RECURSIVE conv_acc(_, _, _, _)
\* acc += kval * gval over the first n kernel entries (numerator)
conv_acc(g, knum, idxs, n) ==
    IF n = 0 THEN 0
    ELSE conv_acc(g, knum, idxs, n - 1) + knum[n] * Load(g, idxs[n])

\* convolve_3x3: new_grayscale[j * width + i] = round_clamp(acc)
convolve_3x3(w, h, g, k) ==
    [p \in 0 .. w * h - 1 |->
        round_clamp(Rat(conv_acc(g, k.num, conv_reads(w, h, p % w, p \div w),
                                 KSIZE * KSIZE),
                        k.den))]

\* neon_mean_filter visits 1 <= y < height - 1, 1 <= x < width - 1
mean_interior(w, h, p) ==
    /\ 1 <= p % w /\ p % w < w - 1
    /\ 1 <= p \div w /\ p \div w < h - 1

\* the subscripts neon_mean_filter reads for pixel (x, y): a, b, ..., i
mean_reads(w, x, y) ==
    [n \in 1 .. 9 |-> (y + ((n - 1) \div 3) - 1) * w + (x + ((n - 1) % 3) - 1)]

\* uint16_t total = the four vpaddl_u8 pair sums + i; (uint8_t)(total / 9)
mean_result(g, idxs) ==
    LET a == Load(g, idxs[1])
        b == Load(g, idxs[2])
        c == Load(g, idxs[3])
        d == Load(g, idxs[4])
        e == Load(g, idxs[5])
        f == Load(g, idxs[6])
        gg == Load(g, idxs[7])
        hh == Load(g, idxs[8])
        i == Load(g, idxs[9])
        total == (vaddq_u16(a, b) + vaddq_u16(c, d) + vaddq_u16(e, f)
                  + vaddq_u16(gg, hh) + i) % 65536
    IN  (total \div 9) % 256

\* neon_mean_filter: writes the interior pixels of out, leaves the others
neon_mean_filter(w, h, g, out) ==
    [p \in 0 .. w * h - 1 |->
        IF mean_interior(w, h, p)
        THEN mean_result(g, mean_reads(w, p % w, p \div w))
        ELSE out[p]]

ConvStrides == {0, 1, 37}

\* a gray raster of up to MaxDim x MaxDim pixels (pixel p holds c + p * d
\* mod 256) and a freshly malloc'ed new_grayscale
InitConv ==
    /\ op = "gray"
    /\ runs = 0
    /\ width \in 1 .. MaxDim
    /\ height \in 1 .. MaxDim
    /\ pixels = NoBuffer
    /\ \E c \in Byte, d \in ConvStrides :
          grayscale = [p \in 0 .. width * height - 1 |-> (c + p * d) % MAXSIZE]
    /\ new_grayscale = [p \in 0 .. width * height - 1 |-> Indeterminate]
    /\ prev = NoBuffer
    /\ extreme = FALSE
    /\ th = 0
    /\ gamma = 0
    /\ kernel = "none"
    /\ reads = NoBuffer
    /\ NoRun

\* zad1.c main: convolve_3x3(width, height, grayscale, new_grayscale, kernel)
Convolve3x3 ==
    /\ op = "gray"
    /\ \E name \in KernelNames :
          /\ kernel' = name
          /\ new_grayscale' = convolve_3x3(width, height, grayscale, Kernels[name])
    /\ reads' = [p \in 0 .. size - 1 |->
                    conv_reads(width, height, p % width, p \div width)]
    /\ op' = "convolve_3x3"
    /\ UNCHANGED <<runs, width, height, pixels, grayscale, prev, extreme, th,
                   gamma>>
    /\ UNCHANGED run_vars

\* part_002 main: neon_mean_filter(width, height, grayscale, new_grayscale)
NeonMeanFilter ==
    /\ op = "gray"
    /\ kernel' = "neon_mean_filter"
    /\ new_grayscale' = neon_mean_filter(width, height, grayscale, new_grayscale)
    /\ reads' = [p \in 0 .. size - 1 |->
                    IF mean_interior(width, height, p)
                    THEN mean_reads(width, p % width, p \div width)
                    ELSE <<>>]
    /\ op' = "neon_mean_filter"
    /\ UNCHANGED <<runs, width, height, pixels, grayscale, prev, extreme, th,
                   gamma>>
    /\ UNCHANGED run_vars

NextConv ==
    \/ Convolve3x3
    \/ NeonMeanFilter

SpecConv == InitConv /\ [][NextConv]_vars

FilterDone == op \in {"convolve_3x3", "neon_mean_filter"}

Clamp(x, lo, hi) == IF x < lo THEN lo ELSE IF x > hi THEN hi ELSE x

\* C5: every sample a filter reads lies inside the width * height buffer;
\* convolve_3x3 reads, for output pixel (x, y) and each dx, dy in {-1, 0, 1},
\* the flat index jj * width + ii with ii, jj the coordinates x + dx, y + dy
\* clamped per axis to the raster (nine reads per output pixel).
C5_BorderReplicationInBounds ==
    FilterDone =>
        /\ \A p \in DOMAIN reads : \A n \in DOMAIN reads[p] :
              reads[p][n] \in 0 .. size - 1
        /\ op = "convolve_3x3" =>
              \A x \in 0 .. width - 1, y \in 0 .. height - 1 :
                  /\ Len(reads[y * width + x]) = 9
                  /\ \A dx, dy \in {-1, 0, 1} :
                        reads[y * width + x][(dy + 1) * KSIZE + (dx + 1) + 1]
                          = Clamp(y + dy, 0, height - 1) * width
                              + Clamp(x + dx, 0, width - 1)

\* C5 witness: convolve_3x3 on a 1x1 raster read its single pixel nine times
C5_Witness ==
    /\ op = "convolve_3x3"
    /\ width = 1 /\ height = 1
    /\ reads[0] = <<0, 0, 0, 0, 0, 0, 0, 0, 0>>

RECURSIVE SumSeq(_, _)
SumSeq(sq, n) == IF n = 0 THEN 0 ELSE SumSeq(sq, n - 1) + sq[n]

\* the filter that ran averages: the mean filter, or a kernel of weights
\* that sum to 1
AveragingFilter ==
    \/ op = "neon_mean_filter"
    \/ /\ op = "convolve_3x3"
       /\ SumSeq(Kernels[kernel].num, KSIZE * KSIZE) = Kernels[kernel].den

\* C6: an averaging filter applied to a raster of one constant intensity c
\* gives c at every output pixel, border and corner pixels included.
C6_AveragingKeepsConstant ==
    FilterDone /\ AveragingFilter /\ IsConstant(grayscale) =>
        \A p \in 0 .. size - 1 : new_grayscale[p] = grayscale[p]

(* ---------------------------- Otsu Binarizer -------------------------- *)

\* histv[v]: the number of pixels of intensity v; histp[v] = histv[v] / size
histv(g, v) == Cardinality({k \in DOMAIN g : g[k] = v})

\* arr_sum over the slice histv[lo .. hi]: the pixels of intensity lo .. hi
\* (arr_sum over the same slice of histp is this count / size)
slice_sum(g, lo, hi) == Cardinality({k \in DOMAIN g : lo <= g[k] /\ g[k] <= hi})

RECURSIVE slice_dev(_, _, _, _, _)
\* arr_var over the slice [lo, hi] of len = hi - lo + 1 entries, scaled:
\* with sum = arr_sum(vals) and mean = sum / len the loop adds
\* probs[i] * (vals[i] - mean)^2, which is 0 where histv[i] = 0 and
\* (histv[i] / size) * ((len * histv[i] - sum) / len)^2 elsewhere; added up
\* pixel by pixel (pixels 0 .. n-1) this is slice_dev / (size * len^2).
slice_dev(g, lo, hi, sum, n) ==
    IF n = 0 THEN 0
    ELSE slice_dev(g, lo, hi, sum, n - 1)
         + (IF lo <= g[n - 1] /\ g[n - 1] <= hi
            THEN ((hi - lo + 1) * histv(g, g[n - 1]) - sum) ^ 2
            ELSE 0)

\* vars[i] = om_b * var_b + om_f * var_f for threshold i, times size^2, as
\* the mixed number whole + num / den: size_b = i + 1, size_f = MAXSIZE - i - 1
otsu_vars(g, i) ==
    LET n == Cardinality(DOMAIN g)
        size_b == i + 1
        size_f == MAXSIZE - i - 1
        sum_b == slice_sum(g, 0, i)
        sum_f == slice_sum(g, i + 1, MAXGRAY)
        xb == sum_b * slice_dev(g, 0, i, sum_b, n)
        xf == sum_f * slice_dev(g, i + 1, MAXGRAY, sum_f, n)
        d == (size_b * size_b) * (size_f * size_f)
        f == (xb % (size_b * size_b)) * (size_f * size_f)
             + (xf % (size_f * size_f)) * (size_b * size_b)
    IN  [whole |-> xb \div (size_b * size_b) + xf \div (size_f * size_f) + f \div d,
         num |-> f % d,
         den |-> d]

RECURSIVE FracLess(_, _, _, _)
\* a / b < c / d for 0 <= a < b and 0 <= c < d, by continued fractions
FracLess(a, b, c, d) ==
    IF c = 0 THEN FALSE
    ELSE IF a = 0 THEN TRUE
    ELSE IF b \div a # d \div c THEN b \div a > d \div c
    ELSE FracLess(d % c, c, b % a, a)

\* the comparison tvar > vars[i] of two such costs
CostGreater(x, y) ==
    \/ x.whole > y.whole
    \/ x.whole = y.whole /\ FracLess(y.num, y.den, x.num, x.den)

RECURSIVE otsu_scan(_, _, _)
\* th after  for (i = lo + 1; i <= hi; i++) if (tvar > vars[i]) { tvar =
\* vars[i]; th = i; }  started with th = lo: the first index of lo .. hi that
\* holds the least cost.  The scan of lo .. hi is the scan of its first half
\* followed by that of its second half, and the second half's result
\* replaces the first's exactly when its cost is strictly smaller.
otsu_scan(cost, lo, hi) ==
    IF lo = hi THEN lo
    ELSE LET mid == (lo + hi) \div 2
             a == otsu_scan(cost, lo, mid)
             b == otsu_scan(cost, mid + 1, hi)
         IN  IF CostGreater(cost[a], cost[b]) THEN b ELSE a

\* the threshold th otsu_treshold selects among vars[0 .. MAXSIZE-3]
otsu_th(g) ==
    LET cost == [i \in 0 .. MAXSIZE - 3 |-> otsu_vars(g, i)]
    IN  otsu_scan(cost, 0, MAXSIZE - 3)

\* the final loop writing 1 in place of 255
otsu_binarize_one(g, t) == [k \in DOMAIN g |-> IF g[k] > t THEN 1 ELSE 0]

\* if (grayscale[i] > th) grayscale[i] = 255; else grayscale[i] = 0;
otsu_binarize(g, t) == [k \in DOMAIN g |-> IF g[k] > t THEN MAXGRAY ELSE 0]

OtsuPalette == {0, 100, 254, 255}

\* a gray raster of 1 .. MaxPixels pixels over OtsuPalette
InitOtsu ==
    /\ op = "gray"
    /\ runs = 0
    /\ height = 1
    /\ width \in 1 .. MaxPixels
    /\ pixels = NoBuffer
    /\ grayscale \in [0 .. width - 1 -> OtsuPalette]
    /\ new_grayscale = NoBuffer
    /\ prev = NoBuffer
    /\ extreme = FALSE
    /\ th = 0
    /\ gamma = 0
    /\ kernel = "none"
    /\ reads = NoBuffer
    /\ NoRun

\* zad1.c main: otsu_treshold(size, new_grayscale), on the raster at hand;
\* applied up to MaxRuns times in a row
OtsuThreshold ==
    /\ op \in {"gray", "otsu_treshold"}
    /\ runs < MaxRuns
    /\ th' = otsu_th(grayscale)
    /\ grayscale' = otsu_binarize(grayscale, th')
    /\ prev' = grayscale
    /\ op' = "otsu_treshold"
    /\ runs' = runs + 1
    /\ UNCHANGED <<width, height, pixels, new_grayscale, extreme, gamma, kernel,
                   reads>>
    /\ UNCHANGED run_vars

NextOtsu == OtsuThreshold

SpecOtsu == InitOtsu /\ [][NextOtsu]_vars

\* sum of f(g[k]) over the pixels k < n with lo <= g[k] <= hi, for f the
\* power p of the intensity (p = 1: first moment, p = 2: second moment)
RECURSIVE Moment(_, _, _, _, _)
Moment(g, lo, hi, p, n) ==
    IF n = 0 THEN 0
    ELSE Moment(g, lo, hi, p, n - 1)
         + (IF lo <= g[n - 1] /\ g[n - 1] <= hi THEN g[n - 1] ^ p ELSE 0)

\* w * var of the INTENSITIES of the pixels in [lo, hi] about their own mean,
\* weighted by p, times size^2: W * Q - M^2 with W the count, M the sum and
\* Q the sum of squares of the intensities (0 for an empty partition)
WithinClass(g, lo, hi) ==
    LET n == Cardinality(DOMAIN g)
    IN  slice_sum(g, lo, hi) * Moment(g, lo, hi, 2, n) - Moment(g, lo, hi, 1, n) ^ 2

\* w_b(t) var_b(t) + w_f(t) var_f(t), times size^2
IntensityCost(g, t) == WithinClass(g, 0, t) + WithinClass(g, t + 1, MAXGRAY)

\* the smallest t in 0 .. 253 that minimises the within-class variance
IntensityThreshold(g) ==
    LET cost == [t \in 0 .. MAXSIZE - 3 |-> IntensityCost(g, t)]
    IN  CHOOSE t \in 0 .. MAXSIZE - 3 :
            /\ \A u \in 0 .. MAXSIZE - 3 : cost[t] <= cost[u]
            /\ \A u \in 0 .. t - 1 : cost[u] > cost[t]

\* C4: the threshold the Otsu Binarizer selects is the smallest t in 0..253
\* minimising w_b var_b + w_f var_f, the variances being those of the pixel
\* intensities of [0,t] and [t+1,255] about each partition's mean intensity;
\* pixels above it become 255 and all others 0.
C4_OtsuMinimisesIntensityVariance ==
    op = "otsu_treshold" /\ runs = 1 =>
        /\ th = IntensityThreshold(prev)
        /\ grayscale = otsu_binarize(prev, IntensityThreshold(prev))

\* C10: the Otsu Binarizer's output holds only 0 and 255, its threshold lies
\* in 0 .. 253, and a second run on that output returns it unchanged.
C10_OtsuBinaryAndIdempotent ==
    op = "otsu_treshold" =>
        /\ Range(grayscale) \subseteq {0, MAXGRAY}
        /\ th \in 0 .. 253
        /\ runs = 2 => grayscale = prev

\* C10 witness: the second run returned a raster of both 0 and 255 unchanged
C10_Witness ==
    /\ op = "otsu_treshold"
    /\ runs = 2
    /\ Range(grayscale) = {0, MAXGRAY}
    /\ grayscale = prev

(* ================================ main ================================ *)

\* zad1.c and its three sibling programs
Variants == {"zad1", "part_000", "part_001", "part_002"}

(* ------------------------- the source file ---------------------------- *)

\* the decimal digits; Digits[d + 1] is the character of digit d
Digits == <<"0", "1", "2", "3", "4", "5", "6", "7", "8", "9">>

IsDigit(c) == \E d \in 1 .. 10 : Digits[d] = c

DigitVal(c) == (CHOOSE d \in 1 .. 10 : Digits[d] = c) - 1

\* "%d" as fprintf prints a non-negative int
RECURSIVE Numeral(_)
Numeral(n) ==
    IF n < 10 THEN <<Digits[n + 1]>>
    ELSE Numeral(n \div 10) \o <<Digits[(n % 10) + 1]>>

\* scanf skips white space before a conversion
RECURSIVE skip_space(_, _)
skip_space(s, p) ==
    IF p <= Len(s) /\ s[p] = " " THEN skip_space(s, p + 1) ELSE p

RECURSIVE digits_end(_, _)
digits_end(s, p) ==
    IF p <= Len(s) /\ IsDigit(s[p]) THEN digits_end(s, p + 1) ELSE p

\* the value of the digits s[p .. q - 1]
RECURSIVE digits_val(_, _, _)
digits_val(s, p, q) ==
    IF p >= q THEN 0
    ELSE digits_val(s, p, q - 1) * 10 + DigitVal(s[q - 1])

\* one "%d" conversion of sscanf starting at position p of the line
scan_d(s, p) ==
    LET a   == skip_space(s, p)
        neg == a <= Len(s) /\ s[a] = "-"
        b   == IF a <= Len(s) /\ s[a] \in {"-", "+"} THEN a + 1 ELSE a
        e   == digits_end(s, b)
    IN  IF e = b THEN [ok |-> FALSE, val |-> 0, next |-> a]
        ELSE [ok |-> TRUE,
              val |-> IF neg THEN 0 - digits_val(s, b, e)
                      ELSE digits_val(s, b, e),
              next |-> e]

\* sscanf(buffer, "%2s", format): the return value and format[0], format[1]
\* ("" stands for the terminating '\0')
sscanf_2s(s) ==
    LET a == skip_space(s, 1)
    IN  IF a > Len(s) THEN [n |-> -1, format |-> <<"", "">>]
        ELSE [n |-> 1,
              format |-> <<s[a],
                           IF a + 1 <= Len(s) /\ s[a + 1] # " "
                           THEN s[a + 1] ELSE "">>]

\* sscanf(buffer, "%d %d", &width, &height): the return value and the ints
sscanf_d_d(s) ==
    LET first  == scan_d(s, 1)
        second == scan_d(s, first.next)
    IN  IF ~first.ok THEN [n |-> 0, a |-> 0, b |-> 0]
        ELSE IF ~second.ok THEN [n |-> 1, a |-> first.val, b |-> 0]
        ELSE [n |-> 2, a |-> first.val, b |-> second.val]

\* sscanf(buffer, "%d", &max_val)
sscanf_d(s) ==
    LET first == scan_d(s, 1)
    IN  [n |-> IF first.ok THEN 1 ELSE 0, a |-> first.val]

\* do { fgets } while (buffer[0] == '#'), from line n on: the number of the
\* line left in buffer, 0 when fgets returned NULL (lines are kept without
\* their newline)
RECURSIVE skip_comments(_, _)
skip_comments(lines, n) ==
    IF n > Len(lines) THEN 0
    ELSE IF Len(lines[n]) > 0 /\ lines[n][1] = "#"
         THEN skip_comments(lines, n + 1)
         ELSE n

\* main, from the first fgets to the check of width and height: the message
\* of the first error_handler call reached ("" if none) and the dimensions
read_header(v, lines) ==
    LET l1     == skip_comments(lines, 1)
        magic  == sscanf_2s(lines[l1])
        l2     == skip_comments(lines, l1 + 1)
        dims   == sscanf_d_d(lines[l2])
        l3     == skip_comments(lines, l2 + 1)
        maxv   == sscanf_d(lines[l3])
        Err(m) == [msg |-> m, width |-> 0, height |-> 0]
    IN  IF l1 = 0 THEN Err("Unexpected end of file (1).")
        ELSE IF magic.n # 1 \/ magic.format[1] # "P" \/ magic.format[2] # "6"
             THEN Err("Bad file format.")
        ELSE IF l2 = 0 THEN Err("Unexpected end of file (2).")
        ELSE IF dims.n # 2 THEN Err("Invalid image dimensions.")
        ELSE IF l3 = 0 THEN Err("Unexpected end of file (3).")
        ELSE IF maxv.n # 1 THEN Err("Invalid max color value.")
        ELSE IF maxv.a > MAXGRAY THEN Err("Unsupported max value > 255.")
        ELSE IF v # "part_001" /\ (dims.a < 1 \/ dims.b < 1)
             THEN Err("Invalid image dimensions.")
        ELSE [msg |-> "", width |-> dims.a, height |-> dims.b]

\* source files hold rasters of up to MaxSide x MaxSide pixels
MaxSide == 2

MagicLines == {<<"P", "6">>, <<"P", "3">>}

\* "w h" for 0 <= w, h <= MaxSide, "65536 65536", a lone "1", and "x"
DimLines ==
    {Numeral(w) \o <<" ">> \o Numeral(h) : w, h \in 0 .. MaxSide}
    \cup {Numeral(Half) \o <<" ">> \o Numeral(Half), Numeral(1), <<"x">>}

MaxLines == {Numeral(MAXGRAY), Numeral(MAXSIZE), <<"x">>}

CommentLine == <<"#", "c">>

\* the header lines of a source file: three lines, cut short after 0 .. 2
\* lines, or each line preceded by a comment line
Headers ==
    LET full == {<<m, d, x>> : m \in MagicLines, d \in DimLines, x \in MaxLines}
    IN  full
        \cup {SubSeq(f, 1, k) : f \in full, k \in 0 .. 2}
        \cup {<<CommentLine, f[1], CommentLine, f[2], CommentLine, f[3]>> :
                 f \in full}

\* pixel k of the payload of every source file
Paint(k) ==
    IF k % 2 = 0 THEN [r |-> 30, g |-> 0, b |-> 0]
    ELSE [r |-> MAXGRAY, g |-> MAXGRAY, b |-> MAXGRAY]

Inputs ==
    [argc : {2, 3}, src_ok : BOOLEAN, tgt_ok : BOOLEAN, lines : Headers,
     avail : 0 .. MaxSide * MaxSide]

(* ---------------------- handles, blocks, output ----------------------- *)

\* FILE* f = fopen(...): NULL when the file cannot be opened
fopen(ok) ==
    [fp |-> IF ok THEN "open" ELSE "NULL", opened |-> ok, closes |-> 0]

\* fclose(f); the pointer keeps its value and dangles afterwards
fclose(f) ==
    [f EXCEPT !.fp = IF @ = "NULL" THEN "NULL" ELSE "closed",
              !.closes = @ + 1]

\* fclose of a null pointer or of a stream already closed is undefined
bad_fclose(f) == f.fp # "open"

\* p = malloc(n): NULL when the allocation fails
malloc(ok) == [ptr |-> IF ok THEN "live" ELSE "NULL", frees |-> 0]

\* free(p): no operation on a null pointer
free(b) ==
    IF b.ptr = "NULL" THEN b ELSE [ptr |-> "freed", frees |-> b.frees + 1]

\* free of a block already freed is undefined
bad_free(b) == b.ptr = "freed"

NoBlock == [ptr |-> "NULL", frees |-> 0]

NoOutput == [header |-> "none", payload |-> <<>>, buffer |-> "none"]

\* fclose(tgt) and exit() hand the stream's content to the file
flush(d) == [d EXCEPT !.file = d.stream]

\* whether error_handler calls fclose on f: part_001 has no NULL test
eh_closes(v, f) == v = "part_001" \/ f.fp # "NULL"

\* error_handler(s, t, msg), undefined behaviour having occurred before the
\* call or not: the process exits with EXIT_FAILURE, or, after undefined
\* behaviour, may be killed by a signal at the first undefined call
error_handler(s, t, ub_before) ==
    LET cs == eh_closes(variant, s)
        ct == eh_closes(variant, t)
        ub_src == cs /\ bad_fclose(s)
        ub_tgt == ct /\ bad_fclose(t)
        s1 == IF cs THEN fclose(s) ELSE s
        t1 == IF ct THEN fclose(t) ELSE t
    IN  /\ op' = "error_handler"
        /\ \E killed \in (IF ub_before \/ ub_src \/ ub_tgt THEN BOOLEAN
                          ELSE {FALSE}) :
              /\ status' = IF killed THEN "signal" ELSE "EXIT_FAILURE"
              /\ src' = IF killed /\ ub_before THEN s ELSE s1
              /\ tgt' = IF killed /\ (ub_before \/ ub_src) THEN t ELSE t1
              /\ dest' = IF ~killed /\ t.fp = "open" THEN flush(dest) ELSE dest

\* whether every pixel (i, j), i < w, j < h, has its subscript below n
raster_fits(w, h, n) ==
    IF w < 1 \/ h < 1 THEN TRUE
    ELSE IF w > n \/ h > n THEN FALSE
    ELSE (h - 1) * w + (w - 1) < n

\* storage as malloc returns it
fresh(n) == [k \in 0 .. n - 1 |-> Indeterminate]

(* ------------------------------ main ---------------------------------- *)

stage_history == <<runs, prev, extreme, gamma, kernel, reads, given>>

InitMain ==
    /\ op = "start"
    /\ variant \in Variants
    /\ input \in Inputs
    /\ given = input
    /\ src = fopen(FALSE)
    /\ tgt = fopen(FALSE)
    /\ heap = [pixels |-> NoBlock, grayscale |-> NoBlock,
               new_grayscale |-> NoBlock]
    /\ dest = [stream |-> NoOutput, file |-> NoOutput]
    /\ status = "running"
    /\ width = 0
    /\ height = 0
    /\ pixels = NoBuffer
    /\ grayscale = NoBuffer
    /\ new_grayscale = NoBuffer
    /\ runs = 0
    /\ prev = NoBuffer
    /\ extreme = FALSE
    /\ th = 0
    /\ gamma = 0
    /\ kernel = "none"
    /\ reads = NoBuffer

\* main: the argc test, the two fopen calls and the test of their results
OpenFiles ==
    /\ status = "running"
    /\ op = "start"
    /\ IF input.argc # 3
       THEN /\ status' = "EXIT_FAILURE"
            /\ op' = "exit"
            /\ UNCHANGED <<src, tgt, dest>>
       ELSE LET s == fopen(input.src_ok)
                t == fopen(input.tgt_ok)
            IN  IF s.fp = "NULL" \/ t.fp = "NULL"
                THEN error_handler(s, t, FALSE)
                ELSE /\ src' = s
                     /\ tgt' = t
                     /\ op' = "fopen"
                     /\ UNCHANGED <<dest, status>>
    /\ UNCHANGED <<variant, input, heap, width, height, pixels, grayscale,
                   new_grayscale, th, stage_history>>

\* main: the three header lines and the range checks
ReadHeader ==
    /\ status = "running"
    /\ op = "fopen"
    /\ LET hdr == read_header(variant, input.lines)
       IN  IF hdr.msg # ""
           THEN /\ error_handler(src, tgt, FALSE)
                /\ UNCHANGED <<width, height, input>>
           ELSE /\ width' = hdr.width
                /\ height' = hdr.height
                /\ input' = [input EXCEPT !.lines = <<>>]
                /\ op' = "header"
                /\ UNCHANGED <<src, tgt, dest, status>>
    /\ UNCHANGED <<variant, heap, pixels, grayscale, new_grayscale, th,
                   stage_history>>

\* main: pixels = malloc(size * sizeof(Pixel)) and its NULL test
AllocPixels ==
    /\ status = "running"
    /\ op = "header"
    /\ \E ok \in BOOLEAN :
          /\ IF ~ok
             THEN /\ heap' = [heap EXCEPT !.pixels = free(malloc(ok))]
                  /\ error_handler(src, tgt, FALSE)
                  /\ UNCHANGED pixels
             ELSE /\ heap' = [heap EXCEPT !.pixels = malloc(ok)]
                  /\ pixels' = fresh(size)
                  /\ op' = "malloc_pixels"
                  /\ UNCHANGED <<src, tgt, dest, status>>
    /\ UNCHANGED <<variant, input, width, height, grayscale, new_grayscale,
                   th, stage_history>>

\* main: fread of the payload, the test of its result, fclose(src)
\* (part_001 closes src at the end of main)
ReadPixels ==
    /\ status = "running"
    /\ op = "malloc_pixels"
    /\ LET bytes_read == IF input.avail < size THEN input.avail ELSE size
       IN  /\ pixels' = [k \in 0 .. size - 1 |->
                            IF k < bytes_read THEN Paint(k) ELSE Indeterminate]
           /\ IF bytes_read # size
              THEN /\ heap' = [heap EXCEPT !.pixels = free(@)]
                   /\ input' = [input EXCEPT !.avail = @ - bytes_read]
                   /\ error_handler(src, tgt, FALSE)
              ELSE /\ src' = IF variant = "part_001" THEN src ELSE fclose(src)
                   /\ input' = [input EXCEPT !.avail =
                                   IF variant = "part_001" THEN @ - bytes_read
                                   ELSE 0]
                   /\ op' = "fread"
                   /\ UNCHANGED <<heap, tgt, dest, status>>
    /\ UNCHANGED <<variant, width, height, grayscale, new_grayscale, th,
                   stage_history>>

\* main: fprintf(tgt, "P5\n%d %d\n255\n", width, height); its result, the
\* number of bytes transmitted, is not looked at
WriteHeader ==
    /\ status = "running"
    /\ op = "fread"
    /\ \E h \in {"none", "partial", "full"} :
          dest' = [dest EXCEPT !.stream.header = h]
    /\ op' = "fprintf"
    /\ UNCHANGED <<variant, input, src, tgt, heap, status, width, height,
                   pixels, grayscale, new_grayscale, th, stage_history>>

\* main: grayscale = malloc(size); on NULL free(pixels), error_handler
AllocGrayscale ==
    /\ status = "running"
    /\ op = "fprintf"
    /\ \E ok \in BOOLEAN :
          IF ~ok
          THEN /\ heap' = [heap EXCEPT !.grayscale = malloc(ok),
                                       !.pixels = free(@)]
               /\ error_handler(src, tgt, FALSE)
               /\ UNCHANGED grayscale
          ELSE /\ heap' = [heap EXCEPT !.grayscale = malloc(ok)]
               /\ grayscale' = fresh(size)
               /\ op' = "malloc_grayscale"
               /\ UNCHANGED <<src, tgt, dest, status>>
    /\ UNCHANGED <<variant, input, width, height, pixels, new_grayscale, th,
                   stage_history>>

\* main: the luminance loop (or neon_weighted_grayscale), then free(pixels)
\* (part_001 frees pixels at the end of main).  part_001 loops over j <
\* height, i < width: when size is less than width x height the accesses
\* leave the blocks
Luminance ==
    /\ status = "running"
    /\ op = "malloc_grayscale"
    /\ op' = "luminance"
    /\ IF variant = "part_001" /\ ~raster_fits(width, height, size)
       THEN /\ status' = "signal"
            /\ UNCHANGED grayscale
       ELSE /\ grayscale' =
                  CASE variant = "zad1" ->
                          [k \in 0 .. size - 1 |->
                              ppm_to_pgm_weighted(pixels[k])]
                    [] variant = "part_001" ->
                          [k \in {j * width + i : j \in 0 .. height - 1,
                                                  i \in 0 .. width - 1} |->
                              ppm_to_pgm_weighted_cast(pixels[k])]
                    [] variant = "part_000" ->
                          neon_weighted_grayscale(size, pixels)
                    [] variant = "part_002" ->
                          neon_weighted_grayscale_cast(size, pixels)
            /\ UNCHANGED status
    /\ heap' = IF variant = "part_001" THEN heap
               ELSE [heap EXCEPT !.pixels = free(@)]
    /\ UNCHANGED <<variant, input, src, tgt, dest, width, height, pixels,
                   new_grayscale, th, stage_history>>

\* zad1.c main: histogram_transform(size, grayscale)
HistogramStage ==
    /\ status = "running"
    /\ variant = "zad1"
    /\ op = "luminance"
    /\ \E nan_byte \in (IF hist_reads_nan(size, grayscale) THEN Byte ELSE {0}) :
          grayscale' = histogram_transform(size, grayscale, nan_byte)
    /\ op' = "histogram_transform"
    /\ UNCHANGED <<variant, input, src, tgt, heap, dest, status, width,
                   height, pixels, new_grayscale, th, stage_history>>

\* zad1.c main: gamma_transform(size, grayscale, 2.0)
GammaStage ==
    /\ status = "running"
    /\ op = "histogram_transform"
    /\ grayscale' = gamma_transform(size, grayscale, 2)
    /\ op' = "gamma_transform"
    /\ UNCHANGED <<variant, input, src, tgt, heap, dest, status, width,
                   height, pixels, new_grayscale, th, stage_history>>

\* main (not part_001): new_grayscale = malloc(size); on NULL free(pixels),
\* free(new_grayscale), error_handler
AllocNewGrayscale ==
    /\ status = "running"
    /\ variant # "part_001"
    /\ op = IF variant = "zad1" THEN "gamma_transform" ELSE "luminance"
    /\ \E ok \in BOOLEAN :
          IF ~ok
          THEN /\ heap' = [heap EXCEPT !.new_grayscale = free(malloc(ok)),
                                       !.pixels = free(@)]
               /\ error_handler(src, tgt, bad_free(heap.pixels))
               /\ UNCHANGED new_grayscale
          ELSE /\ heap' = [heap EXCEPT !.new_grayscale = malloc(ok)]
               /\ new_grayscale' = fresh(size)
               /\ op' = "malloc_new_grayscale"
               /\ UNCHANGED <<src, tgt, dest, status>>
    /\ UNCHANGED <<variant, input, width, height, pixels, grayscale, th,
                   stage_history>>

\* zad1.c main: convolve_3x3(width, height, grayscale, new_grayscale, kernel)
\* part_002 main: neon_mean_filter(width, height, grayscale, new_grayscale)
\* (part_000 has its filter call commented out).  Both walk width x height
\* pixels: when size is less than that the accesses leave the blocks
FilterStage ==
    /\ status = "running"
    /\ variant \in {"zad1", "part_002"}
    /\ op = "malloc_new_grayscale"
    /\ op' = IF variant = "zad1" THEN "convolve_3x3" ELSE "neon_mean_filter"
    /\ IF raster_fits(width, height, size)
       THEN /\ new_grayscale' =
                  IF variant = "zad1"
                  THEN convolve_3x3(width, height, grayscale, Kernels.gaussian)
                  ELSE neon_mean_filter(width, height, grayscale,
                                        new_grayscale)
            /\ UNCHANGED status
       ELSE /\ status' = "signal"
            /\ UNCHANGED new_grayscale
    /\ UNCHANGED <<variant, input, src, tgt, heap, dest, width, height,
                   pixels, grayscale, th, stage_history>>

\* zad1.c main: otsu_treshold(size, new_grayscale)
OtsuStage ==
    /\ status = "running"
    /\ op = "convolve_3x3"
    /\ th' = otsu_th(new_grayscale)
    /\ new_grayscale' = otsu_binarize(new_grayscale, th')
    /\ op' = "otsu_treshold"
    /\ UNCHANGED <<variant, input, src, tgt, heap, dest, status, width,
                   height, pixels, grayscale, stage_history>>

\* the buffer each program hands to fwrite
encoded == IF variant = "part_001" THEN "grayscale" ELSE "new_grayscale"

\* the blocks as they are when fwrite is called: zad1.c and part_000 free
\* grayscale before the call, part_001 and part_002 free nothing before it
heap_at_fwrite ==
    IF variant \in {"zad1", "part_000"}
    THEN [heap EXCEPT !.grayscale = free(@)]
    ELSE heap

\* main: fwrite of the payload (its result is not looked at) and the frees
\* around it; part_001 also closes src here
WritePayload ==
    /\ status = "running"
    /\ op = CASE variant = "zad1" -> "otsu_treshold"
              [] variant = "part_000" -> "malloc_new_grayscale"
              [] variant = "part_001" -> "luminance"
              [] variant = "part_002" -> "neon_mean_filter"
    /\ \E n \in 0 .. size :
          dest' = [dest EXCEPT
                      !.stream.payload =
                          [k \in 0 .. n - 1 |->
                              IF variant = "part_001" THEN grayscale[k]
                              ELSE new_grayscale[k]],
                      !.stream.buffer = heap_at_fwrite[encoded].ptr]
    /\ heap' = IF variant = "part_001"
               THEN [heap EXCEPT !.pixels = free(@), !.grayscale = free(@)]
               ELSE [heap EXCEPT !.grayscale = free(@),
                                 !.new_grayscale = free(@)]
    /\ src' = IF variant = "part_001" THEN fclose(src) ELSE src
    /\ op' = "fwrite"
    /\ UNCHANGED <<variant, input, tgt, status, width, height, pixels,
                   grayscale, new_grayscale, th, stage_history>>

\* main: fclose(tgt), the success message, return 0
Finish ==
    /\ status = "running"
    /\ op = "fwrite"
    /\ tgt' = fclose(tgt)
    /\ dest' = flush(dest)
    /\ status' = "EXIT_SUCCESS"
    /\ op' = "return"
    /\ UNCHANGED <<variant, input, src, heap, width, height, pixels,
                   grayscale, new_grayscale, th, stage_history>>

NextMain ==
    \/ OpenFiles
    \/ ReadHeader
    \/ AllocPixels
    \/ ReadPixels
    \/ WriteHeader
    \/ AllocGrayscale
    \/ Luminance
    \/ HistogramStage
    \/ GammaStage
    \/ AllocNewGrayscale
    \/ FilterStage
    \/ OtsuStage
    \/ WritePayload
    \/ Finish

SpecMain == InitMain /\ [][NextMain]_vars

(* ------------------------- claims about main -------------------------- *)

\* the header lines that are not comments
HeaderLines(lines) ==
    LET NotComment(l) == Len(l) = 0 \/ l[1] # "#"
    IN  SelectSeq(lines, NotComment)

\* the input-side error of a command line and source file, "" if there is
\* none: argument count, unopenable file, magic, dimensions, max value,
\* dimensions below 1, payload shorter than width * height pixels
InputError(in) ==
    LET h  == HeaderLines(in.lines)
        d  == sscanf_d_d(h[2])
        m  == sscanf_d(h[3])
    IN  IF in.argc # 3 THEN "argument count"
        ELSE IF ~in.src_ok \/ ~in.tgt_ok THEN "file not openable"
        ELSE IF Len(h) < 1 \/ Len(h[1]) < 2 \/ h[1][1] # "P" \/ h[1][2] # "6"
             THEN "magic"
        ELSE IF Len(h) < 2 \/ d.n # 2 THEN "dimensions not parseable"
        ELSE IF Len(h) < 3 \/ m.n # 1 THEN "max value not parseable"
        ELSE IF m.a > MAXGRAY THEN "max value above 255"
        ELSE IF d.a < 1 \/ d.b < 1 THEN "dimension below 1"
        ELSE IF d.a > in.avail \/ d.b > in.avail \/ d.a * d.b > in.avail
             THEN "payload too short"
        ELSE ""

\* C11: a run whose input has an input-side error (argument count, file not
\* openable, bad magic, unparseable dimensions or max value, max value above
\* 255, a dimension below 1, payload shorter than width * height pixels) ends
\* with exit status 1, and never with the success exit.
C11_InputErrorsExitWithFailure ==
    (variant # "none" /\ status # "running" /\ InputError(given) # "")
        => status = "EXIT_FAILURE"

\* C12: a run in which fprintf or fwrite transferred fewer bytes than asked
\* does not report success: whenever the process exits with status 0 the
\* stream took the whole P5 header and all width * height payload bytes.
C12_WriteShortfallDetected ==
    (variant # "none" /\ status = "EXIT_SUCCESS") =>
        /\ dest.stream.header = "full"
        /\ Cardinality(DOMAIN dest.stream.payload) = size

\* C13: a run that ends with an error (a failed allocation of grayscale or
\* of new_grayscale included) has written nothing to the destination file:
\* no header byte and no payload byte.
C13_NoPartialWrites ==
    (variant # "none" /\ status \in {"EXIT_FAILURE", "signal"}) =>
        /\ dest.file.header = "none"
        /\ DOMAIN dest.file.payload = {}

\* C14: on every path of main no handle is closed twice or closed without
\* having been opened, no block is freed twice, and when the process exits
\* (status 0 or 1) every handle that was opened has been closed once.
C14_ResourceDiscipline ==
    variant # "none" =>
        /\ \A f \in {src, tgt} :
              /\ f.closes <= IF f.opened THEN 1 ELSE 0
              /\ (status \in {"EXIT_SUCCESS", "EXIT_FAILURE"} /\ f.opened)
                    => f.closes = 1
        /\ \A b \in DOMAIN heap : heap[b].frees <= 1

\* C15: once the payload is written (which every variant does after its
\* last stage), each byte written is a value some stage stored into the
\* encoded buffer, none is storage no stage wrote, and the buffer had not
\* been released when fwrite read it.
C15_StageHandOff ==
    (variant # "none" /\ op \in {"fwrite", "return"}) =>
        /\ \A k \in DOMAIN dest.stream.payload :
              dest.stream.payload[k] \in Byte
        /\ dest.stream.buffer = "live"

====
